---- MODULE Spec2Model ----
(***************************************************************************)
(* A model of data/scraper.py: the HS code validator, parser and parent    *)
(* resolver, the keyword extractor, the record builder structure_for_db    *)
(* and the top-level main().                                               *)
(*                                                                         *)
(* A Python str is a sequence of one-character strings: "8708" is          *)
(* <<"8","7","0","8">>.  Values that are not str are tagged one-element    *)
(* sequences whose element is longer than one character, so that they can  *)
(* never be equal to a str: None, NaN (a pandas float('nan') cell) and     *)
(* Missing (a column the table does not have).                             *)
(***************************************************************************)
EXTENDS Integers, Sequences, FiniteSets, TLC

None == <<"None">>
NaN == <<"NaN">>
Missing == <<"Missing">>

(***************************************************************************)
(* Character classes and the str methods the program uses.                 *)
(***************************************************************************)
\* a str literal as the sequence of its characters
S(str) == [i \in 1..Len(str) |-> SubSeq(str, i, i)]

Range(s) == {s[i] : i \in 1..Len(s)}

Digits == Range(S("0123456789"))
LowerLetters == Range(S("abcdefghijklmnopqrstuvwxyz"))
UpperLetters == Range(S("ABCDEFGHIJKLMNOPQRSTUVWXYZ"))
LowerOf(c) ==
  LET up == S("ABCDEFGHIJKLMNOPQRSTUVWXYZ")
      lo == S("abcdefghijklmnopqrstuvwxyz")
  IN IF c \in UpperLetters THEN lo[CHOOSE i \in 1..26 : up[i] = c] ELSE c
\* str.isspace / the \s class / what str.strip() and str.split() treat as blank
Whitespace == {" ", "\t", "\n", "\r", "\f"}

\* s.replace(ch, '')
Remove(s, ch) == SelectSeq(s, LAMBDA c : c # ch)

\* s[:n]
Take(s, n) == SubSeq(s, 1, IF n < Len(s) THEN n ELSE Len(s))

\* s[n:]
Drop(s, n) == SubSeq(s, n + 1, Len(s))

RECURSIVE LStrip(_)
LStrip(s) == IF s # <<>> /\ Head(s) \in Whitespace THEN LStrip(Tail(s)) ELSE s

RECURSIVE RStrip(_)
RStrip(s) ==
  IF s # <<>> /\ s[Len(s)] \in Whitespace THEN RStrip(SubSeq(s, 1, Len(s) - 1)) ELSE s

\* s.strip()
Strip(s) == RStrip(LStrip(s))

\* s.lower()
Lower(s) == [i \in 1..Len(s) |-> LowerOf(s[i])]

\* str(x) of a table cell: a float nan prints as 'nan'
PyStr(x) == IF x = NaN THEN S("nan") ELSE x

\* pd.isna(x) / pd.notna(x) of a scalar
IsNa(x) == x = NaN \/ x = None

\* sep.join(parts)
RECURSIVE Join(_, _)
Join(sep, parts) ==
  IF parts = <<>> THEN <<>>
  ELSE IF Len(parts) = 1 THEN parts[1]
  ELSE parts[1] \o sep \o Join(sep, Tail(parts))

\* s.split(ch): the pieces between occurrences of ch, empty pieces kept
RECURSIVE SplitOn(_, _)
SplitOn(s, ch) ==
  IF \A i \in 1..Len(s) : s[i] # ch THEN <<s>>
  ELSE LET k == CHOOSE i \in 1..Len(s) : s[i] = ch /\ \A j \in 1..(i - 1) : s[j] # ch
       IN <<SubSeq(s, 1, k - 1)>> \o SplitOn(Drop(s, k), ch)

\* s.split(): the maximal runs of non-blank characters
RECURSIVE SplitWords(_)
SplitWords(s) ==
  LET t == LStrip(s)
  IN IF t = <<>> THEN <<>>
     ELSE LET n == IF \E i \in 1..Len(t) : t[i] \in Whitespace
                   THEN (CHOOSE i \in 1..Len(t) :
                           t[i] \in Whitespace /\ \A j \in 1..(i - 1) : t[j] \notin Whitespace) - 1
                   ELSE Len(t)
          IN <<Take(t, n)>> \o SplitWords(Drop(t, n))

(***************************************************************************)
(* validate_hs_code                                                        *)
(***************************************************************************)
\* up to k groups of two digits, each with or without a dot before it
RECURSIVE LooseGroups(_, _)
LooseGroups(s, k) ==
  \/ s = <<>>
  \/ /\ k > 0 /\ Len(s) >= 3 /\ s[1] = "." /\ s[2] \in Digits /\ s[3] \in Digits
     /\ LooseGroups(Drop(s, 3), k - 1)
  \/ /\ k > 0 /\ Len(s) >= 2 /\ s[1] \in Digits /\ s[2] \in Digits
     /\ LooseGroups(Drop(s, 2), k - 1)

\* the pattern with every dot optional: r'^\d{4}(\.?\d{2})?(\.?\d{2})?(\.?\d{2})?$'
MatchesPattern_DotsOptional(code) ==
  /\ Len(code) >= 4
  /\ \A i \in 1..4 : code[i] \in Digits
  /\ LooseGroups(Drop(code, 4), 3)

\* re.match(r'^\d{4}(\.\d{2})?(\.\d{2})?(\.\d{2})?$', code): four digits, then
\* up to three groups of a dot and two digits, then the end of the string
MatchesPattern(code) ==
  \E k \in 0..3 :
    /\ Len(code) = 4 + (3 * k)
    /\ \A i \in 1..4 : code[i] \in Digits
    /\ \A g \in 0..(k - 1) :
         /\ code[5 + (3 * g)] = "."
         /\ code[6 + (3 * g)] \in Digits
         /\ code[7 + (3 * g)] \in Digits

validate_hs_code(code) ==
  IF code = <<>> THEN FALSE
  ELSE MatchesPattern(Remove(Strip(code), " "))

(***************************************************************************)
(* parse_hs_code                                                           *)
(***************************************************************************)
\* parse_hs_code with the spaces left in: clean_code = code.replace('.', '')
parse_hs_code_KeepsSpaces(code) ==
  LET clean_code == Remove(code, ".")
      chapter == IF Len(clean_code) >= 2 THEN Take(clean_code, 2) ELSE clean_code
      heading == IF Len(clean_code) >= 4 THEN Take(clean_code, 4) ELSE clean_code
      subheading == IF Len(clean_code) >= 6 THEN Take(clean_code, 6) ELSE heading
  IN [chapter |-> chapter,
      heading |-> heading,
      subheading |-> IF Len(subheading) >= 6
                     THEN Take(subheading, 4) \o <<".">> \o SubSeq(subheading, 5, 6)
                     ELSE subheading]

parse_hs_code(code) ==
  LET clean_code == Remove(Remove(code, "."), " ")
      chapter == IF Len(clean_code) >= 2 THEN Take(clean_code, 2) ELSE clean_code
      heading == IF Len(clean_code) >= 4 THEN Take(clean_code, 4) ELSE clean_code
      subheading == IF Len(clean_code) >= 6 THEN Take(clean_code, 6) ELSE heading
  IN [chapter |-> chapter,
      heading |-> heading,
      subheading |-> IF Len(subheading) >= 6
                     THEN Take(subheading, 4) \o <<".">> \o SubSeq(subheading, 5, 6)
                     ELSE subheading]

(***************************************************************************)
(* determine_parent_code                                                   *)
(***************************************************************************)
\* determine_parent_code with the root test off by one: len(clean_digits) < 4
determine_parent_code_NoRoot(code) ==
  LET clean_code == Remove(code, " ")
      parts == SplitOn(clean_code, ".")
      clean_digits == Remove(clean_code, ".")
  IN IF (\E i \in 1..Len(clean_code) : clean_code[i] = ".") /\ Len(parts) > 1
     THEN Join(<<".">>, SubSeq(parts, 1, Len(parts) - 1))
     ELSE IF Len(clean_digits) < 4 THEN None
     ELSE Take(clean_digits, 4)

determine_parent_code(code) ==
  LET clean_code == Remove(code, " ")
      parts == SplitOn(clean_code, ".")
      clean_digits == Remove(clean_code, ".")
  IN IF (\E i \in 1..Len(clean_code) : clean_code[i] = ".") /\ Len(parts) > 1
     THEN Join(<<".">>, SubSeq(parts, 1, Len(parts) - 1))
     ELSE IF Len(clean_digits) <= 4 THEN None
     ELSE Take(clean_digits, 4)

(***************************************************************************)
(* extract_keywords                                                        *)
(***************************************************************************)
STOPWORDS ==
  {S("the"), S("a"), S("an"), S("and"), S("or"), S("but"), S("in"), S("on"),
   S("at"), S("to"), S("for"), S("of"), S("with"), S("is"), S("are"), S("was"),
   S("were"), S("be"), S("been"), S("being"), S("this"), S("that"), S("these"),
   S("those"), S("it"), S("its"), S("as"), S("by"), S("from"), S("has"),
   S("have"), S("had"), S("will"), S("would"), S("can"), S("could"),
   S("should"), S("used"), S("use"), S("etc"), S("e.g"), S("i.e")}

\* max_keywords: int = 15
DefaultMaxKeywords == 15

\* re.sub(r'[^a-z0-9\s]', ' ', text)
SubNonAlnum(text) ==
  [i \in 1..Len(text) |->
     IF text[i] \in (LowerLetters \cup Digits \cup Whitespace) THEN text[i] ELSE " "]

\* the order-preserving de-duplication loop over seen / unique_keywords
RECURSIVE Unique(_)
Unique(keywords) ==
  IF keywords = <<>> THEN <<>>
  ELSE LET unique_keywords == Unique(SubSeq(keywords, 1, Len(keywords) - 1))
           keyword == keywords[Len(keywords)]
       IN IF keyword \in Range(unique_keywords) THEN unique_keywords
          ELSE Append(unique_keywords, keyword)

\* xs[:n] of a list, n of either sign
SliceTo(xs, n) ==
  IF n >= 0 THEN Take(xs, n)
  ELSE SubSeq(xs, 1, IF Len(xs) + n > 0 THEN Len(xs) + n ELSE 0)

\* extract_keywords with the stopword test left out of the filter
extract_keywords_StopwordsKept(description, max_keywords) ==
  IF description = <<>> \/ IsNa(description) THEN <<>>
  ELSE LET text == SubNonAlnum(Lower(description))
           words == SplitWords(text)
           keywords == SelectSeq(words, LAMBDA word : Len(word) >= 3)
       IN SliceTo(Unique(keywords), max_keywords)

\* extract_keywords lowercasing last: the pattern is [^a-zA-Z0-9\s], the filter
\* sees the words as typed, and the kept words are lowercased afterwards
extract_keywords_LowerLast(description, max_keywords) ==
  IF description = <<>> \/ IsNa(description) THEN <<>>
  ELSE LET text == [i \in 1..Len(description) |->
                      IF description[i] \in
                           (LowerLetters \cup UpperLetters \cup Digits \cup Whitespace)
                      THEN description[i] ELSE " "]
           words == SplitWords(text)
           keywords == SelectSeq(words, LAMBDA word : word \notin STOPWORDS /\ Len(word) >= 3)
           lowered == [i \in 1..Len(keywords) |-> Lower(keywords[i])]
       IN SliceTo(Unique(lowered), max_keywords)

extract_keywords(description, max_keywords) ==
  IF description = <<>> \/ IsNa(description) THEN <<>>
  ELSE LET text == SubNonAlnum(Lower(description))
           words == SplitWords(text)
           keywords == SelectSeq(words, LAMBDA word : word \notin STOPWORDS /\ Len(word) >= 3)
       IN SliceTo(Unique(keywords), max_keywords)

(***************************************************************************)
(* extract_common_products                                                 *)
(***************************************************************************)
extract_common_products(description, product_name) ==
  IF product_name # <<>> /\ ~IsNa(product_name)
  THEN <<Strip(Lower(product_name))>>
  ELSE <<>>

(***************************************************************************)
(* structure_for_db: the body of the loop for one row.  A row maps each    *)
(* column to its cell: a str, NaN (an empty cell) or Missing.              *)
(***************************************************************************)
\* row.get(column, default)
RowGet(row, column, default) == IF row[column] = Missing THEN default ELSE row[column]

\* hs_code = str(row.get('hs_code', '')).strip()
RowHsCode(row) == Strip(PyStr(RowGet(row, "hs_code", <<>>)))

FullDescription(row) ==
  LET description_parts ==
        (IF ~IsNa(RowGet(row, "hs_description", None))
         THEN <<Strip(PyStr(row["hs_description"]))>> ELSE <<>>)
        \o (IF ~IsNa(RowGet(row, "product_description", None))
            THEN <<Strip(PyStr(row["product_description"]))>> ELSE <<>>)
  IN IF description_parts # <<>> THEN Join(S(" - "), description_parts)
     ELSE S("No description")

BuildRecord(row, country_code) ==
  LET hs_code == RowHsCode(row)
      code_parts == parse_hs_code(hs_code)
  IN [code |-> hs_code,
      chapter |-> code_parts.chapter,
      heading |-> code_parts.heading,
      subheading |-> code_parts.subheading,
      countryCode |-> country_code,
      description |-> FullDescription(row),
      keywords |-> extract_keywords(
                     PyStr(RowGet(row, "product_description", <<>>)) \o S(" ")
                       \o PyStr(RowGet(row, "material", <<>>)) \o S(" ")
                       \o PyStr(RowGet(row, "function", <<>>)),
                     DefaultMaxKeywords),
      commonProducts |-> extract_common_products(
                           PyStr(RowGet(row, "product_description", <<>>)),
                           PyStr(RowGet(row, "product_name", <<>>))),
      parentCode |-> determine_parent_code(hs_code)]

(***************************************************************************)
(* State.                                                                  *)
(*   code .. applications : a code string under validation, parsing and    *)
(*                          parent chasing                                 *)
(*   text .. kw2          : a text under keyword extraction                *)
(*   pc .. exitStatus     : one run of main()                              *)
(***************************************************************************)
VARIABLES code, built, cpc, valid, parts, parent, applications,
          text, tbuilt, kpc, max_kw, kw, kw2,
          pc, csvExists, df, idx, structured_data, skipped,
          saveInvoked, output, error, reported, exitStatus

codeVars == <<code, built, cpc, valid, parts, parent, applications>>
kwVars == <<text, tbuilt, kpc, max_kw, kw, kw2>>
mainVars == <<pc, csvExists, df, idx, structured_data, skipped,
              saveInvoked, output, error, reported, exitStatus>>
vars == <<codeVars, kwVars, mainVars>>

(***************************************************************************)
(* Bounds of the model.                                                    *)
(***************************************************************************)
MaxCodeLen == 7
MaxPieces == 5
MaxChain == 6
MaxTextPieces == 4
MaxKw == 2
MaxRows == 2

\* the characters a code string is typed from
CodeChars == {"1", ".", " ", "\t", "x"}
\* the pieces a longer code string is put together from
CodePieces == {S("8708"), S("87"), S(".30"), S("."), S("10"), S(" ")}
\* the pieces a text is put together from
TextPieces == {S("the"), S("The"), S("car"), S("ab"), S("123"), S("-"), S(" ")}

CodeIdle ==
  /\ code = <<>> /\ built = 0 /\ cpc = "idle" /\ valid = FALSE
  /\ parts = None /\ parent = None /\ applications = 0
KwIdle ==
  /\ text = <<>> /\ tbuilt = 0 /\ kpc = "idle" /\ max_kw = 0 /\ kw = None /\ kw2 = None
MainIdle ==
  /\ pc = "idle" /\ csvExists = FALSE /\ df = None /\ idx = 0
  /\ structured_data = <<>> /\ skipped = 0 /\ saveInvoked = FALSE
  /\ output = "unwritten" /\ error = "none" /\ reported = "nothing" /\ exitStatus = -1

(***************************************************************************)
(* The code functions applied to one code string.                          *)
(***************************************************************************)
CodeInit ==
  /\ code = <<>> /\ built = 0 /\ cpc = "input" /\ valid = FALSE
  /\ parts = None /\ parent = None /\ applications = 0
  /\ KwIdle /\ MainIdle

AppendChar(c) ==
  /\ cpc = "input" /\ built < MaxCodeLen
  /\ code' = Append(code, c) /\ built' = built + 1
  /\ UNCHANGED <<cpc, valid, parts, parent, applications, kwVars, mainVars>>

AppendPiece(p) ==
  /\ cpc = "input" /\ built < MaxPieces
  /\ code' = code \o p /\ built' = built + 1
  /\ UNCHANGED <<cpc, valid, parts, parent, applications, kwVars, mainVars>>

Validate ==
  /\ cpc = "input"
  /\ valid' = validate_hs_code(code)
  /\ cpc' = "validated"
  /\ UNCHANGED <<code, built, parts, parent, applications, kwVars, mainVars>>

Parse ==
  /\ cpc = "validated" /\ valid
  /\ parts' = parse_hs_code(code)
  /\ parent' = code
  /\ cpc' = "parsed"
  /\ UNCHANGED <<code, built, valid, applications, kwVars, mainVars>>

Parent ==
  /\ cpc \in {"parsed", "chain"} /\ parent # None /\ applications < MaxChain
  /\ parent' = determine_parent_code(parent)
  /\ applications' = applications + 1
  /\ cpc' = "chain"
  /\ UNCHANGED <<code, built, valid, parts, kwVars, mainVars>>

CodeNext == (\E c \in CodeChars : AppendChar(c)) \/ Validate
SpecCode == CodeInit /\ [][CodeNext]_vars

HierarchyNext == (\E p \in CodePieces : AppendPiece(p)) \/ Validate \/ Parse \/ Parent
SpecHierarchy == CodeInit /\ [][HierarchyNext]_vars

(***************************************************************************)
(* extract_keywords applied to one text, then to its own output joined by  *)
(* spaces.                                                                 *)
(***************************************************************************)
KwInit ==
  /\ text = <<>> /\ tbuilt = 0 /\ kpc = "input" /\ max_kw = 0 /\ kw = None /\ kw2 = None
  /\ CodeIdle /\ MainIdle

AppendText(p) ==
  /\ kpc = "input" /\ tbuilt < MaxTextPieces
  /\ text' = text \o p /\ tbuilt' = tbuilt + 1
  /\ UNCHANGED <<kpc, max_kw, kw, kw2, codeVars, mainVars>>

Extract(m) ==
  /\ kpc = "input"
  /\ max_kw' = m
  /\ kw' = extract_keywords(text, m)
  /\ kpc' = "extracted"
  /\ UNCHANGED <<text, tbuilt, kw2, codeVars, mainVars>>

ReExtract ==
  /\ kpc = "extracted"
  /\ kw2' = extract_keywords(Join(S(" "), kw), max_kw)
  /\ kpc' = "reextracted"
  /\ UNCHANGED <<text, tbuilt, max_kw, kw, codeVars, mainVars>>

KwNext ==
  \/ \E p \in TextPieces : AppendText(p)
  \/ \E m \in (0..MaxKw) \cup {DefaultMaxKeywords} : Extract(m)
  \/ ReExtract
SpecKeywords == KwInit /\ [][KwNext]_vars

(***************************************************************************)
(* main(): read_csv, structure_for_db, generate_summary, save_json inside  *)
(* one try block with two handlers.                                        *)
(***************************************************************************)
\* the cells the tables of the model are filled from
HsCodeCells == {NaN, S("abc"), S("870830"), S(" 8708 "), S("8708 .30"), S("8708.30.10")}
NameCells == {Missing, NaN, S(" Brake Pad")}
DescCells == {NaN, S("Rubber pad for the car")}

Rows ==
  [hs_code : HsCodeCells, product_name : NameCells, product_description : DescCells,
   hs_description : {S("Brakes ")}, material : {Missing}, function : {NaN}]

\* the tables pd.read_csv can return: a column is missing from every row or from none
Tables ==
  {t \in UNION {[1..n -> Rows] : n \in 0..MaxRows} :
     \A i, j \in DOMAIN t : (t[i].product_name = Missing) <=> (t[j].product_name = Missing)}

\* country_code: str = 'IN'
DefaultCountry == S("IN")

MainInit ==
  /\ pc = "read_csv" /\ csvExists \in BOOLEAN /\ df = None /\ idx = 0
  /\ structured_data = <<>> /\ skipped = 0 /\ saveInvoked = FALSE
  /\ output = "unwritten" /\ error = "none" /\ reported = "nothing" /\ exitStatus = -1
  /\ CodeIdle /\ KwIdle

\* read_csv returning an empty table for a file that does not exist
ReadCsv_EmptyOnMissing ==
  /\ pc = "read_csv"
  /\ \/ /\ ~csvExists
        /\ df' = <<>> /\ pc' = "structure_for_db"
        /\ UNCHANGED error
     \/ /\ csvExists
        /\ error' = "Exception" /\ pc' = "except Exception"
        /\ UNCHANGED df
     \/ /\ csvExists
        /\ df' \in Tables /\ pc' = "structure_for_db"
        /\ UNCHANGED error
  /\ UNCHANGED <<csvExists, idx, structured_data, skipped, saveInvoked, output,
                 reported, exitStatus, codeVars, kwVars>>

\* read_csv: raises FileNotFoundError when the file does not exist; pd.read_csv
\* raises on a file it cannot parse (EmptyDataError, ParserError, ...)
ReadCsv ==
  /\ pc = "read_csv"
  /\ \/ /\ ~csvExists
        /\ error' = "FileNotFoundError" /\ pc' = "except FileNotFoundError"
        /\ UNCHANGED df
     \/ /\ csvExists
        /\ error' = "Exception" /\ pc' = "except Exception"
        /\ UNCHANGED df
     \/ /\ csvExists
        /\ df' \in Tables /\ pc' = "structure_for_db"
        /\ UNCHANGED error
  /\ UNCHANGED <<csvExists, idx, structured_data, skipped, saveInvoked, output,
                 reported, exitStatus, codeVars, kwVars>>

\* the loop body with the skipped counter not advanced on an invalid row
StructureRow_SkipNotCounted ==
  /\ pc = "structure_for_db" /\ idx < Len(df)
  /\ LET row == df[idx + 1]
     IN IF ~validate_hs_code(RowHsCode(row))
        THEN UNCHANGED <<skipped, structured_data>>
        ELSE /\ structured_data' = Append(structured_data, BuildRecord(row, DefaultCountry))
             /\ UNCHANGED skipped
  /\ idx' = idx + 1
  /\ UNCHANGED <<pc, csvExists, df, saveInvoked, output, error, reported, exitStatus,
                 codeVars, kwVars>>

\* one iteration of the loop of structure_for_db
StructureRow ==
  /\ pc = "structure_for_db" /\ idx < Len(df)
  /\ LET row == df[idx + 1]
     IN IF ~validate_hs_code(RowHsCode(row))
        THEN /\ skipped' = skipped + 1
             /\ UNCHANGED structured_data
        ELSE /\ structured_data' = Append(structured_data, BuildRecord(row, DefaultCountry))
             /\ UNCHANGED skipped
  /\ idx' = idx + 1
  /\ UNCHANGED <<pc, csvExists, df, saveInvoked, output, error, reported, exitStatus,
                 codeVars, kwVars>>

\* the loop is over: structure_for_db returns structured_data
StructureReturn ==
  /\ pc = "structure_for_db" /\ idx = Len(df)
  /\ pc' = "generate_summary"
  /\ UNCHANGED <<csvExists, df, idx, structured_data, skipped, saveInvoked, output,
                 error, reported, exitStatus, codeVars, kwVars>>

\* generate_summary only prints
GenerateSummary ==
  /\ pc = "generate_summary"
  /\ pc' = "save_json"
  /\ UNCHANGED <<csvExists, df, idx, structured_data, skipped, saveInvoked, output,
                 error, reported, exitStatus, codeVars, kwVars>>

\* a print of structure_for_db or generate_summary raises (a closed or
\* non-UTF-8 standard output): the try block is left for the generic handler
PrintRaises ==
  /\ pc \in {"structure_for_db", "generate_summary"}
  /\ error' = "Exception" /\ pc' = "except Exception"
  /\ UNCHANGED <<csvExists, df, idx, structured_data, skipped, saveInvoked, output,
                 reported, exitStatus, codeVars, kwVars>>

\* save_json: open(output_file, 'w') may raise before anything is written,
\* json.dump may raise after the file was truncated, or the file is complete
SaveJson ==
  /\ pc = "save_json"
  /\ saveInvoked' = TRUE
  /\ \/ /\ output' = output
        /\ error' = "Exception" /\ pc' = "except Exception"
     \/ /\ output' = "partial"
        /\ error' = "Exception" /\ pc' = "except Exception"
     \/ /\ output' = "complete"
        /\ error' = error /\ pc' = "success"
  /\ UNCHANGED <<csvExists, df, idx, structured_data, skipped, reported, exitStatus,
                 codeVars, kwVars>>

\* except FileNotFoundError: print the error and the hint; main() returns, and
\* the script ends normally
HandleFileNotFound ==
  /\ pc = "except FileNotFoundError"
  /\ reported' = "error"
  /\ pc' = "exit" /\ exitStatus' = 0
  /\ UNCHANGED <<csvExists, df, idx, structured_data, skipped, saveInvoked, output,
                 error, codeVars, kwVars>>

\* except Exception: print the error and the traceback; main() returns, and the
\* script ends normally
HandleException ==
  /\ pc = "except Exception"
  /\ reported' = "error and traceback"
  /\ pc' = "exit" /\ exitStatus' = 0
  /\ UNCHANGED <<csvExists, df, idx, structured_data, skipped, saveInvoked, output,
                 error, codeVars, kwVars>>

\* the end of the try block: the success message; main() returns
Success ==
  /\ pc = "success"
  /\ reported' = "success"
  /\ pc' = "exit" /\ exitStatus' = 0
  /\ UNCHANGED <<csvExists, df, idx, structured_data, skipped, saveInvoked, output,
                 error, codeVars, kwVars>>

MainNext ==
  \/ ReadCsv \/ StructureRow \/ StructureReturn \/ GenerateSummary \/ PrintRaises
  \/ SaveJson \/ HandleFileNotFound \/ HandleException \/ Success
SpecMain == MainInit /\ [][MainNext]_vars

(***************************************************************************)
(* Properties.                                                             *)
(***************************************************************************)
DigitsOf(s) == SelectSeq(s, LAMBDA c : c \in Digits)
IsNumeric(s) == s # <<>> /\ \A i \in 1..Len(s) : s[i] \in Digits
IsPrefix(a, b) == Len(a) <= Len(b) /\ SubSeq(b, 1, Len(a)) = a
Validated == cpc = "validated"

\* digits d written DDDD, DDDD.DD, DDDD.DD.DD, DDDD.DD.DD.DD
RECURSIVE Dotted(_)
Dotted(d) == IF Len(d) <= 4 THEN d ELSE Dotted(SubSeq(d, 1, Len(d) - 2)) \o <<".">> \o Drop(d, Len(d) - 2)

\* the rule of C1 as written: blanks and dots removed, the rest is 4 to 10 digits
PermissiveRule(s) ==
  LET rest == SelectSeq(s, LAMBDA c : c \notin (Whitespace \cup {"."}))
  IN rest # <<>> /\ IsNumeric(rest) /\ Len(rest) >= 4 /\ Len(rest) <= 10

\* the rule the code applies: surrounding blanks and all spaces removed, the
\* rest is 4, 6, 8 or 10 digits with a dot after digit 4 and after every two
\* digits from there
StrictRule(s) ==
  LET t == SelectSeq(Strip(s), LAMBDA c : c # " ")
      d == DigitsOf(t)
  IN /\ \A i \in 1..Len(t) : t[i] \in (Digits \cup {"."})
     /\ Len(d) \in {4, 6, 8, 10}
     /\ t = Dotted(d)

Extracted == kpc \in {"extracted", "reextracted"}
\* the tokens of the lowercased, punctuation-replaced text
Words == SplitWords(SubNonAlnum(Lower(text)))

\* C7 (as written): no token of extract_keywords' result is shorter than 3, is
\* purely numeric or is a stopword.
C7_AsWritten ==
  Extracted =>
    \A i \in 1..Len(kw) : Len(kw[i]) >= 3 /\ ~IsNumeric(kw[i]) /\ kw[i] \notin STOPWORDS

\* C7 (amended): no token of extract_keywords' result is shorter than 3 or is a
\* stopword, and every token of the lowercased, punctuation-replaced text that
\* is one or the other is dropped; a purely numeric token of 3 or more digits
\* is kept like any other word.
C7_ShortAndStopwordsDropped ==
  Extracted =>
    LET words == Words
        kept == Range(kw)
    IN /\ \A w \in kept : Len(w) >= 3 /\ w \notin STOPWORDS
       /\ \A i \in 1..Len(words) :
            (Len(words[i]) < 3 \/ words[i] \in STOPWORDS) => words[i] \notin kept
       /\ max_kw = DefaultMaxKeywords =>
            \A i \in 1..Len(words) :
              (IsNumeric(words[i]) /\ Len(words[i]) >= 3) => words[i] \in kept

\* a text with a stopword or a short token, and a number: only the number is kept
C7_Witness ==
  /\ kpc = "extracted"
  /\ (S("the") \in Range(Words) \/ S("ab") \in Range(Words)) /\ S("123") \in Range(Words)
  /\ kw = <<S("123")>>

\* C8: extract_keywords(" ".join(extract_keywords(t, m)), m) = extract_keywords(t, m)
\* for every text t and every m >= 0, token for token in the same order; the
\* result has no duplicates and at most m tokens.
C8_Idempotent ==
  kpc = "reextracted" =>
    /\ kw2 = kw
    /\ Len(kw) <= max_kw
    /\ \A i, j \in 1..Len(kw) : kw[i] = kw[j] => i = j

\* a text that the first extraction changed (a stopword, a capital, a
\* duplicate) and that the second one left alone
C8_Witness ==
  /\ kpc = "reextracted" /\ kw2 = kw /\ Len(kw) >= 1
  /\ Len(Words) > Len(kw) /\ text # Lower(text)

\* the rows of df[1..idx] that pass validate_hs_code, in order
ValidRows == SelectSeq([i \in 1..idx |-> i], LAMBDA i : validate_hs_code(RowHsCode(df[i])))

\* C2: in structure_for_db, after each row, the number of records appended plus
\* the skipped counter is the number of rows processed; an invalid row appends
\* nothing and adds exactly 1 to the counter, a valid row appends exactly one
\* record and leaves the counter alone; at the end records + skipped = rows.
C2_RowAccounting ==
  /\ Len(structured_data) + skipped = idx
  /\ Len(structured_data) = Len(ValidRows)
  /\ pc \in {"generate_summary", "save_json", "success"} =>
       Len(structured_data) + skipped = Len(df)

\* a whole table was structured, with a row kept and a row skipped
C2_Witness ==
  /\ pc = "generate_summary" /\ Len(df) = 2
  /\ Len(structured_data) = 1 /\ skipped = 1

\* digits and dots only, 4, 6, 8 or 10 digits, dots after digit 4 and digit 6 only
IsCanonical(c) ==
  LET d == DigitsOf(c)
  IN /\ \A i \in 1..Len(c) : c[i] \in (Digits \cup {"."})
     /\ Len(d) \in {4, 6, 8, 10}
     /\ \/ c = d /\ Len(d) = 4
        \/ c = Take(d, 4) \o <<".">> \o Drop(d, 4) /\ Len(d) = 6
        \/ c = Take(d, 4) \o <<".">> \o SubSeq(d, 5, 6) \o <<".">> \o Drop(d, 6) /\ Len(d) >= 8

\* C3: the 'code' of every record structure_for_db emits is a canonical HsCode:
\* decimal digits and dots only, 4, 6, 8 or 10 digits, dots at the canonical
\* places only, also for a code with whitespace inside it.
C3_CodeCanonical ==
  \A k \in 1..Len(structured_data) : IsCanonical(structured_data[k].code)

\* C5: when the input CSV file does not exist, save_json is never invoked and
\* no output is written, the run reports the error and ends; in every run
\* save_json is invoked only after read_csv returned the table and
\* structure_for_db went over every row of it.
C5_NoOutputWithoutInput ==
  /\ ~csvExists => (~saveInvoked /\ output = "unwritten")
  /\ (pc = "exit" /\ ~csvExists) => (error = "FileNotFoundError" /\ reported = "error")
  /\ (saveInvoked \/ output # "unwritten") =>
       (csvExists /\ pc \in {"success", "except Exception", "exit"} /\ idx = Len(df))

\* a run without the input file has ended, the error reported
C5_Witness == pc = "exit" /\ ~csvExists /\ reported = "error" /\ output = "unwritten"

\* C6: a run of main() that fails for a reason other than a missing input file
\* reports the error and exits with a non-zero status.
C6_NonZeroExit ==
  (pc = "exit" /\ error = "Exception") =>
    (reported = "error and traceback" /\ exitStatus # 0)

\* the product name of a row, as C9 reads it
ExpectedProducts(row) ==
  IF row.product_name \in {Missing, NaN, <<>>} THEN <<>>
  ELSE <<Strip(Lower(row.product_name))>>

\* C9: commonProducts of every record is the one-element list of the lowercased,
\* trimmed product name when the row has one, and the empty list when the field
\* is missing (no such column, or an empty/NaN cell).
C9_CommonProducts ==
  \A k \in 1..Len(structured_data) :
    structured_data[k].commonProducts = ExpectedProducts(df[ValidRows[k]])

====
